---- MODULE Spec2Model ----
(***************************************************************************)
(* Personal finance tracker (src/app.py): credential store, password       *)
(* policy, ledger store, budget store and the budget-notification engine.  *)
(*                                                                         *)
(* The three SQLite tables are sequences of rows in id order.  Amounts are *)
(* whole currency units; the ratio tests pct >= t are carried out exactly  *)
(* by cross-multiplication.  Characters are Unicode code points.           *)
(***************************************************************************)
EXTENDS Integers, Sequences, FiniteSets, TLC

VARIABLES users, entries, budgets, pc, sel, ret, password, registered, lastSet

vars == <<users, entries, budgets, pc, sel, ret, password, registered, lastSet>>

(***************************************************************************)
(* Bounds of the model.                                                    *)
(***************************************************************************)
MaxPasswordLen == 8
MaxEntries == 2
MaxBudgetRows == 2

(***************************************************************************)
(* Generic helpers.                                                        *)
(***************************************************************************)
SeqsUpTo(S, n) == UNION {[1..k -> S] : k \in 0..n}

None == [none |-> TRUE]

NoCall == [op |-> "none", args |-> None, raised |-> FALSE, value |-> None]

(***************************************************************************)
(* Password policy.                                                        *)
(***************************************************************************)
MinPasswordLength == 8

MsgTooShort == "Password must be at least 8 characters long."
MsgNoUpper == "Password must contain at least one uppercase letter."

\* Code points: 'a' = 97, 'A' = 65, 'Z' = 90, U+00C9 (E with acute) = 201.
Chars == {97, 65, 90, 201}

\* re.search(r"[A-Z]", password): some character in the range 'A'..'Z'.
ReSearchUpper(p) == \E i \in 1..Len(p) : p[i] >= 65 /\ p[i] <= 90

ValidatePasswordOffByOne(p) ==
    IF Len(p) <= MinPasswordLength THEN MsgTooShort
    ELSE IF ~ReSearchUpper(p) THEN MsgNoUpper
    ELSE ""

ValidatePassword(p) ==
    IF Len(p) < MinPasswordLength THEN MsgTooShort
    ELSE IF ~ReSearchUpper(p) THEN MsgNoUpper
    ELSE ""

\* hashlib.sha256(password.encode()).hexdigest(): a deterministic digest of
\* the characters, here a polynomial digest over the code points.
RECURSIVE Digest(_, _)
Digest(p, h) ==
    IF p = <<>> THEN h
    ELSE Digest(Tail(p), (h * 31 + Head(p)) % 1000003)

HashPassword(p) == Digest(p, 7)

(***************************************************************************)
(* Credential store.                                                       *)
(***************************************************************************)
Usernames == {"alice", "bob"}

\* Candidate passwords typed into the registration and login forms.
PasswordInputs ==
    { <<65, 97, 97, 97, 97, 97, 97, 97>>,        \* "Aaaaaaaa"  valid
      <<97, 97, 97, 97, 97, 97, 97, 90>>,        \* "aaaaaaaZ"  valid
      <<65, 97, 97>>,                            \* "Aaa"       too short
      <<97, 97, 97, 97, 97, 97, 97, 97>> }       \* "aaaaaaaa"  no uppercase

UserRow(id, username, pwd) ==
    [id |-> id, username |-> username, password |-> pwd]

\* INSERT INTO users: the UNIQUE(username) constraint raises IntegrityError.
UsernameTaken(tbl, username) == \E i \in 1..Len(tbl) : tbl[i].username = username

InsertUserNoConstraint(tbl, username, pwd) ==
    [integrityError |-> FALSE,
     tbl |-> Append(tbl, UserRow(Len(tbl) + 1, username, pwd))]

InsertUser(tbl, username, pwd) ==
    IF UsernameTaken(tbl, username)
    THEN [integrityError |-> TRUE, tbl |-> tbl]
    ELSE [integrityError |-> FALSE,
          tbl |-> Append(tbl, UserRow(Len(tbl) + 1, username, pwd))]

\* register_user(username, password): the returned pair and the users table.
RegisterUser(tbl, username, p) ==
    LET pwd_error == ValidatePassword(p)
        ins == InsertUser(tbl, username, HashPassword(p))
    IN  IF pwd_error # ""
        THEN [value |-> <<FALSE, pwd_error>>, tbl |-> tbl]
        ELSE IF ins.integrityError
        THEN [value |-> <<FALSE, "Username already exists.">>, tbl |-> ins.tbl]
        ELSE [value |-> <<TRUE, "Account created successfully.">>,
              tbl |-> ins.tbl]

\* SELECT * FROM users WHERE username=? AND password=?  ... fetchone()
LoginUser(tbl, username, p) ==
    LET hits == {i \in 1..Len(tbl) :
                    /\ tbl[i].username = username
                    /\ tbl[i].password = HashPassword(p)}
    IN  IF hits = {} THEN None
        ELSE tbl[CHOOSE i \in hits : \A j \in hits : i <= j]

(***************************************************************************)
(* Ledger store.                                                           *)
(***************************************************************************)
UserIds == {1, 2}
Types == {"income", "expense"}
Categories == {"Food", "Transport"}

\* str(date) is ISO-8601 text 'YYYY-MM-DD'; a date is the number YYYYMMDD.
Dates == {20240605, 20240705, 20250605}
EntryAmounts == {1, 2}

\* pd.to_datetime(...).dt.year / .dt.month
DateYear(d) == d \div 10000
DateMonth(d) == (d \div 100) % 100

EntryRow(id, e) ==
    [id |-> id, user_id |-> e.user_id, type |-> e.type,
     category |-> e.category, amount |-> e.amount, date |-> e.date]

RefEntry ==
    [user_id |-> 1, type |-> "expense", category |-> "Food", date |-> 20240605]

\* Form inputs: the reference expense with each amount, and the entries that
\* differ from it in exactly one of owner, type, category and date.
EntryInputs ==
    { e \in [user_id : UserIds, type : Types, category : Categories,
             amount : EntryAmounts, date : Dates] :
        Cardinality({f \in {"user_id", "type", "category", "date"} :
                        e[f] # RefEntry[f]})
          <= (IF e.amount = 2 THEN 1 ELSE 0) }

InsertEntry(tbl, e) == Append(tbl, EntryRow(Len(tbl) + 1, e))

\* SELECT * FROM entries WHERE user_id=?  The date column is converted to
\* datetimes only when the frame is not empty.
GetEntriesDf(tbl, user_id) ==
    LET rows == SelectSeq(tbl, LAMBDA r : r.user_id = user_id)
    IN  [rows |-> rows, datetime |-> rows # <<>>]

(***************************************************************************)
(* Budget store.                                                           *)
(***************************************************************************)
BudgetAmounts == {0, 4, 5}

RefBudget == [user_id |-> 1, category |-> "Food", month |-> 6, year |-> 2024]

\* Form inputs: the reference key with every amount, and the keys that differ
\* from it in the category or in the month with the amounts 0 and 4.
BudgetInputs ==
    { b \in [user_id : {1}, category : Categories, amount : BudgetAmounts,
             month : {6, 7}, year : {2024}] :
        Cardinality({f \in {"category", "month"} :
                        b[f] # RefBudget[f]})
          <= (IF b.amount = 5 THEN 0 ELSE 1) }

BudgetKey(b) == <<b.user_id, b.category, b.month, b.year>>

BudgetRow(id, b) ==
    [id |-> id, user_id |-> b.user_id, category |-> b.category,
     amount |-> b.amount, month |-> b.month, year |-> b.year]

\* SELECT id FROM budgets WHERE user_id=? AND category=? AND month=? AND year=?
BudgetExists(tbl, b) ==
    \E i \in 1..Len(tbl) : BudgetKey(tbl[i]) = BudgetKey(b)

UpdateBudgetAsInsert(tbl, b) ==
    Append(tbl, [id |-> Len(tbl) + 1, user_id |-> b.user_id,
                 category |-> b.category, amount |-> b.amount,
                 month |-> b.month, year |-> b.year])

\* UPDATE budgets SET amount=? WHERE <key>
UpdateBudget(tbl, b) ==
    [i \in 1..Len(tbl) |->
        IF BudgetKey(tbl[i]) = BudgetKey(b)
        THEN [tbl[i] EXCEPT !.amount = b.amount]
        ELSE tbl[i]]

\* INSERT INTO budgets (...)
InsertBudget(tbl, b) == Append(tbl, BudgetRow(Len(tbl) + 1, b))

UpsertBudgetAlwaysInsert(tbl, b) == InsertBudget(tbl, b)

\* set_budget run without interruption.
UpsertBudget(tbl, b) ==
    IF BudgetExists(tbl, b) THEN UpdateBudget(tbl, b) ELSE InsertBudget(tbl, b)

GetBudgetsAnyMonth(tbl, user_id, year, month) ==
    SelectSeq(tbl, LAMBDA r : r.user_id = user_id /\ r.year = year)

\* SELECT * FROM budgets WHERE user_id=? AND year=? AND month=?
GetBudgets(tbl, user_id, year, month) ==
    SelectSeq(tbl, LAMBDA r :
        r.user_id = user_id /\ r.year = year /\ r.month = month)

(***************************************************************************)
(* Aggregation and notification engine.                                    *)
(***************************************************************************)
RECURSIVE SumAmount(_)
SumAmount(rows) ==
    IF rows = <<>> THEN 0 ELSE Head(rows).amount + SumAmount(Tail(rows))

FilterExpensesAnyType(rows, year, month) ==
    SelectSeq(rows, LAMBDA r :
        DateYear(r.date) = year /\ DateMonth(r.date) = month)

\* df[(type=='expense') & (date.dt.year==year) & (date.dt.month==month)]
FilterExpenses(rows, year, month) ==
    SelectSeq(rows, LAMBDA r :
        /\ r.type = "expense"
        /\ DateYear(r.date) = year
        /\ DateMonth(r.date) = month)

\* .groupby('category')['amount'].sum(): one total per category present.
GroupSum(rows) ==
    [c \in {rows[i].category : i \in 1..Len(rows)} |->
        SumAmount(SelectSeq(rows, LAMBDA r : r.category = c))]

\* spent.get(category, 0)
SpentGet(spent, category) ==
    IF category \in DOMAIN spent THEN spent[category] ELSE 0

\* f"{x:.0f}" of 100*used/amount: round to nearest, ties to even.
PercentText(used, amount) ==
    LET q == (100 * used) \div amount
        r == (100 * used) % amount
    IN  IF 2 * r < amount THEN q
        ELSE IF 2 * r > amount THEN q + 1
        ELSE IF q % 2 = 0 THEN q ELSE q + 1

\* The messages, as the data the text is formatted from.
MsgExceeded(row, used) ==
    [tier |-> "EXCEEDED", category |-> row.category,
     used |-> used, amount |-> row.amount]
MsgAlmostUsed(row, used) ==
    [tier |-> "almost used", category |-> row.category,
     used |-> used, amount |-> row.amount]
MsgWarning(row, used) ==
    [tier |-> "Warning", category |-> row.category,
     percent |-> PercentText(used, row.amount),
     used |-> used, amount |-> row.amount]
MsgEarlyAlert(row, used) ==
    [tier |-> "Early alert", category |-> row.category,
     percent |-> PercentText(used, row.amount),
     used |-> used, amount |-> row.amount]

RowNotificationsStrict(row, used) ==
    IF row.amount > 0
    THEN IF 100 * used > 100 * row.amount THEN <<MsgExceeded(row, used)>>
         ELSE IF 100 * used > 75 * row.amount THEN <<MsgAlmostUsed(row, used)>>
         ELSE IF 100 * used > 50 * row.amount THEN <<MsgWarning(row, used)>>
         ELSE IF 100 * used > 25 * row.amount THEN <<MsgEarlyAlert(row, used)>>
         ELSE <<>>
    ELSE <<>>

RowNotificationsZeroBudget(row, used) ==
    IF row.amount >= 0
    THEN IF 100 * used >= 100 * row.amount THEN <<MsgExceeded(row, used)>>
         ELSE IF 100 * used >= 75 * row.amount THEN <<MsgAlmostUsed(row, used)>>
         ELSE IF 100 * used >= 50 * row.amount THEN <<MsgWarning(row, used)>>
         ELSE IF 100 * used >= 25 * row.amount THEN <<MsgEarlyAlert(row, used)>>
         ELSE <<>>
    ELSE <<>>

\* The body of the loop for one budget row: pct = used / amount compared
\* with 1.0, 0.75, 0.5 and 0.25.
RowNotifications(row, used) ==
    IF row.amount > 0
    THEN IF 100 * used >= 100 * row.amount THEN <<MsgExceeded(row, used)>>
         ELSE IF 100 * used >= 75 * row.amount THEN <<MsgAlmostUsed(row, used)>>
         ELSE IF 100 * used >= 50 * row.amount THEN <<MsgWarning(row, used)>>
         ELSE IF 100 * used >= 25 * row.amount THEN <<MsgEarlyAlert(row, used)>>
         ELSE <<>>
    ELSE <<>>

\* for _, row in budgets.iterrows(): ...
RECURSIVE Notify(_, _)
Notify(rows, spent) ==
    IF rows = <<>> THEN <<>>
    ELSE RowNotifications(Head(rows), SpentGet(spent, Head(rows).category))
           \o Notify(Tail(rows), spent)

\* check_budget_notifications(user_id, year, month).  With an empty entries
\* frame the date column holds no datetimes and df['date'].dt raises
\* AttributeError.
CheckBudgetNotifications(ent, bud, user_id, year, month) ==
    LET rows == GetBudgets(bud, user_id, year, month)
        df == GetEntriesDf(ent, user_id)
        spent == GroupSum(FilterExpenses(df.rows, year, month))
    IN  IF rows = <<>>
        THEN [raised |-> FALSE, value |-> <<>>, spent |-> None]
        ELSE IF ~df.datetime
        THEN [raised |-> TRUE, value |-> <<>>, spent |-> None]
        ELSE [raised |-> FALSE, value |-> Notify(rows, spent), spent |-> spent]

(***************************************************************************)
(* State machine.  ret is the outcome of the latest call; registered and   *)
(* lastSet are history variables: the first successful registration of     *)
(* each username, and the amounts of the set_budget calls of each key.     *)
(***************************************************************************)
Procs == {1, 2}

CheckPeriods == {<<2024, 6>>, <<2024, 7>>}

Returned(op, args, value) ==
    [op |-> op, args |-> args, raised |-> FALSE, value |-> value]

InitStores ==
    /\ users = <<>>
    /\ entries = <<>>
    /\ budgets = <<>>
    /\ pc = [p \in Procs |-> "idle"]
    /\ sel = [p \in Procs |-> None]
    /\ ret = NoCall
    /\ registered = <<>>
    /\ lastSet = <<>>

Init == InitStores /\ password = <<>>

\* validate_password(password)
ValidatePasswordCall ==
    /\ ret' = Returned("validate_password", None, ValidatePassword(password))
    /\ UNCHANGED <<users, entries, budgets, pc, sel, password, registered, lastSet>>

\* register_user(username, password)
RegisterUserCall(username, p) ==
    LET out == RegisterUser(users, username, p)
    IN  /\ users' = out.tbl
        /\ ret' = Returned("register_user",
                           [username |-> username, password |-> p], out.value)
        /\ registered' =
             IF out.value[1] /\ username \notin DOMAIN registered
             THEN (username :> [password |-> p, row |-> out.tbl[Len(out.tbl)]])
                    @@ registered
             ELSE registered
        /\ UNCHANGED <<entries, budgets, pc, sel, password, lastSet>>

\* login_user(username, password)
LoginUserCall(username, p) ==
    /\ ret' = Returned("login_user", [username |-> username, password |-> p],
                       LoginUser(users, username, p))
    /\ UNCHANGED <<users, entries, budgets, pc, sel, password, registered, lastSet>>

\* add_entry(user_id, etype, category, amount, date)
AddEntry(e) ==
    /\ Len(entries) < MaxEntries
    /\ entries' = InsertEntry(entries, e)
    /\ ret' = Returned("add_entry", None, None)
    /\ UNCHANGED <<users, budgets, pc, sel, password, registered, lastSet>>

\* set_budget(user_id, category, amount, month, year), uninterrupted.
SetBudgetStores(b) ==
    /\ BudgetExists(budgets, b) \/ Len(budgets) < MaxBudgetRows
    /\ budgets' = UpsertBudget(budgets, b)
    /\ ret' = Returned("set_budget", None, None)
    /\ UNCHANGED <<users, entries, pc, sel, password, registered>>

SetBudget(b) == SetBudgetStores(b) /\ UNCHANGED lastSet

\* The same call, with its amount logged in the history of its key.
SetBudgetLogged(b) ==
    /\ SetBudgetStores(b)
    /\ lastSet' =
         (BudgetKey(b) :>
            [amount |-> b.amount,
             earlier |-> IF BudgetKey(b) \in DOMAIN lastSet
                         THEN lastSet[BudgetKey(b)].earlier
                                \cup {lastSet[BudgetKey(b)].amount}
                         ELSE {}])
         @@ lastSet

\* get_budgets(user_id, year, month)
GetBudgetsCall(user_id, year, month) ==
    /\ ret' = Returned("get_budgets",
                       [user_id |-> user_id, year |-> year, month |-> month],
                       GetBudgets(budgets, user_id, year, month))
    /\ UNCHANGED <<users, entries, budgets, pc, sel, password, registered, lastSet>>

CheckCallAcknowledges(user_id, year, month) ==
    LET out == CheckBudgetNotifications(entries, budgets, user_id, year, month)
    IN  /\ ret' = [op |-> "check_budget_notifications",
                   args |-> [user_id |-> user_id, year |-> year, month |-> month],
                   raised |-> out.raised, value |-> out.value,
                   spent |-> out.spent]
        /\ budgets' = IF out.value = <<>> THEN budgets
                      ELSE [i \in 1..Len(budgets) |->
                              IF /\ budgets[i].user_id = user_id
                                 /\ budgets[i].year = year
                                 /\ budgets[i].month = month
                              THEN [budgets[i] EXCEPT !.amount = 0]
                              ELSE budgets[i]]
        /\ UNCHANGED <<users, entries, pc, sel, password, registered, lastSet>>

\* check_budget_notifications(user_id, year, month)
CheckCall(user_id, year, month) ==
    LET out == CheckBudgetNotifications(entries, budgets, user_id, year, month)
    IN  /\ ret' = [op |-> "check_budget_notifications",
                   args |-> [user_id |-> user_id, year |-> year, month |-> month],
                   raised |-> out.raised, value |-> out.value,
                   spent |-> out.spent]
        /\ UNCHANGED <<users, entries, budgets, pc, sel, password, registered, lastSet>>

\* set_budget in two steps, as concurrent sessions run it: the SELECT ...
PendingInserts == Cardinality({q \in Procs : pc[q] = "write" /\ ~sel[q].found})

SetBudgetSelect(p, b) ==
    /\ pc[p] = "idle"
    /\ BudgetExists(budgets, b) \/ Len(budgets) + PendingInserts < MaxBudgetRows
    /\ sel' = [sel EXCEPT ![p] = [args |-> b, found |-> BudgetExists(budgets, b)]]
    /\ pc' = [pc EXCEPT ![p] = "write"]
    /\ UNCHANGED <<users, entries, budgets, ret, password, registered, lastSet>>

\* ... and then the UPDATE or the INSERT, and the commit.
SetBudgetWrite(p) ==
    /\ pc[p] = "write"
    /\ budgets' = IF sel[p].found THEN UpdateBudget(budgets, sel[p].args)
                  ELSE InsertBudget(budgets, sel[p].args)
    /\ sel' = [sel EXCEPT ![p] = None]
    /\ pc' = [pc EXCEPT ![p] = "idle"]
    /\ ret' = Returned("set_budget", None, None)
    /\ UNCHANGED <<users, entries, password, registered, lastSet>>

(***************************************************************************)
(* Specifications.                                                         *)
(***************************************************************************)
\* One session: ledger, budgets and notifications.
Next ==
    \/ \E e \in EntryInputs : AddEntry(e)
    \/ \E b \in BudgetInputs : SetBudget(b)
    \/ \E u \in UserIds, per \in CheckPeriods : CheckCall(u, per[1], per[2])

Spec == Init /\ [][Next]_vars

\* One session setting and reading budgets.
NextBudget ==
    \/ \E b \in BudgetInputs : SetBudgetLogged(b)
    \/ \E u \in UserIds, per \in CheckPeriods : GetBudgetsCall(u, per[1], per[2])

SpecBudget == Init /\ [][NextBudget]_vars

\* The password policy on every password up to MaxPasswordLen characters.
InitPassword == InitStores /\ password \in SeqsUpTo(Chars, MaxPasswordLen)

NextPassword == ValidatePasswordCall

SpecPassword == InitPassword /\ [][NextPassword]_vars

\* Registration and login.
NextUsers ==
    \/ \E u \in Usernames, p \in PasswordInputs : RegisterUserCall(u, p)
    \/ \E u \in Usernames, p \in PasswordInputs : LoginUserCall(u, p)

SpecUsers == Init /\ [][NextUsers]_vars

\* Two sessions writing at once.
RaceBudgetInputs == {b \in BudgetInputs : b.month = 6 /\ b.amount # 5}

RaceEntryInputs == {e \in EntryInputs : e.amount = 1}

RacePasswordInputs == {p \in PasswordInputs : p[1] = 65}

NextRace ==
    \/ \E p \in Procs, b \in RaceBudgetInputs : SetBudgetSelect(p, b)
    \/ \E p \in Procs : SetBudgetWrite(p)
    \/ \E e \in RaceEntryInputs : AddEntry(e)
    \/ \E u \in Usernames, p \in RacePasswordInputs : RegisterUserCall(u, p)

SpecRace == Init /\ [][NextRace]_vars

(***************************************************************************)
(* Properties.                                                             *)
(***************************************************************************)
IsCheck == ret.op = "check_budget_notifications"

\* The entries that count towards category c for user u in year y, month m,
\* and their total, taken directly from the entries table.
CountedEntries(u, y, m, c) ==
    {i \in 1..Len(entries) :
        /\ entries[i].user_id = u
        /\ entries[i].type = "expense"
        /\ entries[i].category = c
        /\ entries[i].date > y * 10000 + m * 100
        /\ entries[i].date < y * 10000 + m * 100 + 32}

RECURSIVE TotalOf(_)
TotalOf(S) ==
    IF S = {} THEN 0
    ELSE LET i == CHOOSE k \in S : TRUE
         IN  entries[i].amount + TotalOf(S \ {i})

PeriodSpend(u, y, m, c) == TotalOf(CountedEntries(u, y, m, c))

\* The budget rows of user u for year y, month m, by position in the table.
PeriodRows(u, y, m) ==
    {i \in 1..Len(budgets) :
        /\ budgets[i].user_id = u
        /\ budgets[i].year = y
        /\ budgets[i].month = m}

\* The tier of a ratio used/amount, amount > 0, each band given by both ends.
TierOf(used, amount) ==
    CASE used >= amount -> "EXCEEDED"
      [] 4 * used >= 3 * amount /\ used < amount -> "almost used"
      [] 2 * used >= amount /\ 4 * used < 3 * amount -> "Warning"
      [] 4 * used >= amount /\ 2 * used < amount -> "Early alert"
      [] 4 * used < amount -> "none"

RECURSIVE ExpectedFrom(_, _, _, _)
ExpectedFrom(i, u, y, m) ==
    IF i > Len(budgets) THEN <<>>
    ELSE LET row == budgets[i]
             used == PeriodSpend(u, y, m, row.category)
         IN  (IF /\ i \in PeriodRows(u, y, m)
                 /\ row.amount > 0
                 /\ TierOf(used, row.amount) # "none"
              THEN << [tier |-> TierOf(used, row.amount),
                       category |-> row.category,
                       used |-> used, amount |-> row.amount] >>
              ELSE <<>>)
             \o ExpectedFrom(i + 1, u, y, m)

Emitted ==
    [i \in 1..Len(ret.value) |->
        [tier |-> ret.value[i].tier, category |-> ret.value[i].category,
         used |-> ret.value[i].used, amount |-> ret.value[i].amount]]

\* C1: the messages of check_budget_notifications(user, year, month) are, in
\* the order of the budget rows of the period, one message for every row with
\* amount > 0 whose ratio used/amount is at least 0.25, of the tier of that
\* ratio (EXCEEDED from 1.00, almost used from 0.75, Warning from 0.50, Early
\* alert from 0.25), and nothing for a ratio below 0.25.
C1_TieredMessages ==
    IsCheck =>
        Emitted = ExpectedFrom(1, ret.args.user_id, ret.args.year, ret.args.month)

\* Budget 4 with 1 + 2 spent (the 1000 / 750 scenario): only "almost used".
C1_Witness ==
    /\ IsCheck
    /\ Len(ret.value) = 1
    /\ ret.value[1].tier = "almost used"
    /\ ret.value[1].used = 3
    /\ ret.value[1].amount = 4

\* C4: the spend total of every category used by check_budget_notifications
\* is the sum of the amounts of the user's expense entries dated in the
\* requested year and month; nothing else contributes.
C4_SpendTotals ==
    (IsCheck /\ ret.spent # None) =>
        /\ \A c \in Categories :
             SpentGet(ret.spent, c) =
               PeriodSpend(ret.args.user_id, ret.args.year, ret.args.month, c)
        /\ \A i \in 1..Len(ret.value) :
             ret.value[i].used =
               PeriodSpend(ret.args.user_id, ret.args.year, ret.args.month,
                           ret.value[i].category)

\* A total was computed from a counted entry while the table also holds an
\* entry that must not count.
C4_Witness ==
    /\ IsCheck
    /\ ret.spent # None
    /\ \E c \in Categories :
         /\ CountedEntries(ret.args.user_id, ret.args.year, ret.args.month, c) # {}
         /\ \E i \in 1..Len(entries) :
              /\ entries[i].category = c
              /\ i \notin CountedEntries(ret.args.user_id, ret.args.year,
                                         ret.args.month, c)

\* C7: a budget row of amount 0 never produces a message, whatever was spent
\* in its category.
C7_ZeroBudgetSilent ==
    IsCheck =>
        /\ \A i \in 1..Len(ret.value) : ret.value[i].amount # 0
        /\ \A c \in Categories :
             (\A k \in PeriodRows(ret.args.user_id, ret.args.year, ret.args.month) :
                 budgets[k].category = c => budgets[k].amount = 0)
             => \A i \in 1..Len(ret.value) : ret.value[i].category # c

\* The call returned with a zero budget on a category that has spend.
C7_Witness ==
    /\ IsCheck
    /\ ~ret.raised
    /\ \E k \in PeriodRows(ret.args.user_id, ret.args.year, ret.args.month) :
         /\ budgets[k].amount = 0
         /\ PeriodSpend(ret.args.user_id, ret.args.year, ret.args.month,
                        budgets[k].category) > 0

\* C8: with no budget row of the user for the requested year and month the
\* call returns the empty sequence, whatever the entries and whatever other
\* budgets exist.
C8_NoBudgetsNoMessages ==
    (IsCheck /\ PeriodRows(ret.args.user_id, ret.args.year, ret.args.month) = {})
        => (~ret.raised /\ ret.value = <<>>)

\* No budget for the period, a budget for another period, and spend recorded
\* in the requested period.
C8_Witness ==
    /\ IsCheck
    /\ PeriodRows(ret.args.user_id, ret.args.year, ret.args.month) = {}
    /\ \E k \in 1..Len(budgets) : budgets[k].user_id = ret.args.user_id
    /\ \E c \in Categories :
         PeriodSpend(ret.args.user_id, ret.args.year, ret.args.month, c) > 0

\* C9: a call of check_budget_notifications leaves the three stores as they
\* were, and a call that follows a call with the same arguments, with no
\* write in between, has the same outcome.
C9_ReadOnlyIdempotent ==
    [][ret'.op = "check_budget_notifications" =>
          /\ users' = users /\ entries' = entries /\ budgets' = budgets
          /\ (IsCheck /\ ret.args = ret'.args) =>
                (ret'.value = ret.value /\ ret'.raised = ret.raised)]_vars

C9_Witness ==
    /\ IsCheck
    /\ ~ret.raised
    /\ ret.value # <<>>

\* C10: check_budget_notifications always returns a message sequence and
\* never ends in an error; with a budget row for the period and no entries of
\* the user the result is the empty sequence.
C10_NeverRaises == IsCheck => ~ret.raised

\* The state reached by set_budget(1, "Food", 4, 6, 2024) and then
\* check_budget_notifications(1, 2024, 6) with no entry of user 1.
C10_Raised ==
    /\ IsCheck
    /\ ret.raised
    /\ PeriodRows(ret.args.user_id, ret.args.year, ret.args.month) # {}
    /\ \A i \in 1..Len(entries) : entries[i].user_id # ret.args.user_id

KeyMatches(key, args) ==
    key[1] = args.user_id /\ key[3] = args.month /\ key[4] = args.year

\* C2: after any sequence of uninterrupted set_budget calls the budgets table
\* holds at most one row per (user_id, category, month, year), and
\* get_budgets(user, year, month) returns, for each key of that period that
\* was ever set, exactly one row, holding the amount of the latest call.
C2_OneRowLatestAmount ==
    /\ \A i, j \in 1..Len(budgets) :
         BudgetKey(budgets[i]) = BudgetKey(budgets[j]) => i = j
    /\ ret.op = "get_budgets" =>
         /\ \A key \in DOMAIN lastSet :
              KeyMatches(key, ret.args) =>
                /\ Cardinality({i \in 1..Len(ret.value) :
                                   BudgetKey(ret.value[i]) = key}) = 1
                /\ \A i \in 1..Len(ret.value) :
                     BudgetKey(ret.value[i]) = key
                       => ret.value[i].amount = lastSet[key].amount
         /\ \A i \in 1..Len(ret.value) :
              /\ BudgetKey(ret.value[i]) \in DOMAIN lastSet
              /\ KeyMatches(BudgetKey(ret.value[i]), ret.args)

\* get_budgets returned a key that was set with one amount and then with
\* another.
C2_Witness ==
    /\ ret.op = "get_budgets"
    /\ \E key \in DOMAIN lastSet :
         /\ KeyMatches(key, ret.args)
         /\ lastSet[key].earlier \ {lastSet[key].amount} # {}

BudgetKeysUnique(tbl) ==
    \A i, j \in 1..Len(tbl) : BudgetKey(tbl[i]) = BudgetKey(tbl[j]) => i = j

IdsUnique(tbl) == \A i, j \in 1..Len(tbl) : tbl[i].id = tbl[j].id => i = j

UsernamesUnique ==
    \A i, j \in 1..Len(users) : users[i].username = users[j].username => i = j

\* C3: with two sessions running set_budget at once, the key uniqueness of
\* the budgets table is lost only by the INSERT of a call whose SELECT found
\* no row while a row of that key has been inserted since; register_user and
\* add_entry keep usernames and row ids unique in every interleaving.  (That
\* the two-row state is reached is C3_Witness.)
C3_OnlySetBudgetRaces ==
    /\ [](UsernamesUnique /\ IdsUnique(users) /\ IdsUnique(entries)
            /\ IdsUnique(budgets))
    /\ [][(BudgetKeysUnique(budgets) /\ ~BudgetKeysUnique(budgets')) =>
            \E p \in Procs :
                /\ pc[p] = "write"
                /\ ~sel[p].found
                /\ BudgetExists(budgets, sel[p].args)
                /\ budgets' = InsertBudget(budgets, sel[p].args)]_vars

\* Two rows of one key, both sessions back at rest.
C3_Witness ==
    /\ \A p \in Procs : pc[p] = "idle"
    /\ \E i, j \in 1..Len(budgets) :
         i # j /\ BudgetKey(budgets[i]) = BudgetKey(budgets[j])

\* The password policy, stated on the characters.
PolicyHolds(p) ==
    Len(p) >= 8 /\ \E i \in 1..Len(p) : p[i] \in 65..90

\* str.isupper() of one character: 'A'..'Z', and U+00C9 among the others.
IsUppercaseLetter(c) == c \in 65..90 \/ c = 201

\* C5 (as amended): once register_user(u, p1) has succeeded, every later
\* register_user(u, p2) fails and stores nothing, with 'Username already
\* exists.' when p2 satisfies the password policy and with the policy's
\* message otherwise; login_user(u, p1) returns the record stored by the
\* first registration.
C5_SecondRegistrationFails ==
    /\ [][(ret'.op = "register_user"
            /\ ret'.args.username \in DOMAIN registered) =>
              /\ users' = users
              /\ ret'.value[1] = FALSE
              /\ PolicyHolds(ret'.args.password)
                   => ret'.value[2] = "Username already exists."
              /\ ~PolicyHolds(ret'.args.password)
                   => ret'.value[2] \in {MsgTooShort, MsgNoUpper}]_vars
    /\ [](\A u \in DOMAIN registered :
            /\ LoginUser(users, u, registered[u].password) = registered[u].row
            /\ registered[u].row.username = u
            /\ (ret.op = "login_user" /\ ret.args.username = u
                  /\ ret.args.password = registered[u].password)
                 => ret.value = registered[u].row)

\* A second registration of a registered username was refused as a duplicate.
C5_Witness ==
    /\ ret.op = "register_user"
    /\ ret.args.username \in DOMAIN registered
    /\ ret.value = <<FALSE, "Username already exists.">>
    /\ ret.args.password # registered[ret.args.username].password

\* C5 as stated: a second register_user(u, p2) fails with 'Username already
\* exists.' for any password p2.
C5_AlwaysDuplicateMessage ==
    [][(ret'.op = "register_user"
          /\ ret'.args.username \in DOMAIN registered) =>
            ret'.value = <<FALSE, "Username already exists.">>]_vars

\* C6 (as amended): validate_password(p) returns the empty string exactly
\* when len(p) >= 8 and p contains one of the letters 'A'..'Z'; a password
\* that is too short gets the length message, also when it has no such letter.
C6_PolicyAscii ==
    ret.op = "validate_password" =>
        /\ ret.value = "" <=> PolicyHolds(password)
        /\ Len(password) < 8 => ret.value = MsgTooShort
        /\ (Len(password) >= 8 /\ ~PolicyHolds(password)) => ret.value = MsgNoUpper

\* A password breaking both rules got the length message.
C6_Witness ==
    /\ ret.op = "validate_password"
    /\ Len(password) = 7
    /\ \A i \in 1..Len(password) : password[i] = 97
    /\ ret.value = MsgTooShort

\* C6 as stated: the result is empty exactly when len(p) >= 8 and p contains
\* an uppercase letter.
C6_PolicyAnyUppercase ==
    ret.op = "validate_password" =>
        (ret.value = ""
           <=> (Len(password) >= 8
                  /\ \E i \in 1..Len(password) : IsUppercaseLetter(password[i])))

====
